---- MODULE Spec2Model ----
(***************************************************************************)
(* Layout-analysis pipeline of src/ingest.py and its caller src/main.py:   *)
(* the Block Merger loop of extract_logical_text_blocks, the document      *)
(* statistics, the four filters, the Feature Engineer, and the two entry   *)
(* points that run them (ingest.py's __main__ block and                    *)
(* main.process_single_pdf).                                               *)
(*                                                                         *)
(* A text is a sequence of characters, each its Unicode code point (the    *)
(* value of Python's ord); Text writes an ASCII text by its characters.    *)
(* A float that the code obtains by dividing two integers is kept as the   *)
(* exact fraction [num, den]; comparisons are cross-multiplied.            *)
(***************************************************************************)
EXTENDS Integers, Sequences, FiniteSets, TLC

VARIABLES
    pc,             \* position of the run: the call about to be made
    entry,          \* the entry point or function under execution
    doc,            \* the opened document: a sequence of pages, each a sequence of lines
    lines,          \* extract_logical_text_blocks: the lines of the page being merged
    i,              \* extract_logical_text_blocks: loop index of the merger (0-based, as in the code)
    current_block,  \* extract_logical_text_blocks: the open block
    merged_blocks,  \* extract_logical_text_blocks: the closed blocks of the page
    blocks,         \* the block collection handed to the next call
    page_count,     \* doc.page_count as returned by the extraction
    weighted,       \* weighted_font_threshold / weighted_avg_font_size
    returned,       \* the value returned by the last call
    calls           \* the functions called so far in this run, in order

vars == <<pc, entry, doc, lines, i, current_block, merged_blocks, blocks,
          page_count, weighted, returned, calls>>

-----------------------------------------------------------------------------
(* Characters and the character classes of Python's str and re.            *)

\* The printable ASCII characters in code order, from the space (32) to the
\* tilde (126); the double quote (34), the backslash (92) and the
\* backtick (96) by name.
Ascii ==
    <<" ", "!", "QUOTE", "#", "$", "%", "&", "'", "(", ")", "*", "+", ",",
      "-", ".", "/", "0", "1", "2", "3", "4", "5", "6", "7", "8", "9",
      ":", ";", "<", "=", ">", "?", "@", "A", "B", "C", "D", "E", "F",
      "G", "H", "I", "J", "K", "L", "M", "N", "O", "P", "Q", "R", "S",
      "T", "U", "V", "W", "X", "Y", "Z", "[", "BACKSLASH", "]", "^", "_",
      "BACKTICK",
      "a", "b", "c", "d", "e", "f", "g", "h", "i", "j", "k", "l", "m",
      "n", "o", "p", "q", "r", "s", "t", "u", "v", "w", "x", "y", "z",
      "{", "|", "}", "~">>
\* ord(c) of a printable ASCII character.
OrdTable ==
    [c \in {Ascii[k] : k \in 1..Len(Ascii)} |->
        31 + (CHOOSE k \in 1..Len(Ascii) : Ascii[k] = c)]
Ord(c) == OrdTable[c]
\* The text with these printable ASCII characters.
Text(s) == [k \in 1..Len(s) |-> Ord(s[k])]

\* A character lies in one of the ranges <<first, last>>.
InRanges(c, ranges) == \E r \in ranges : r[1] <= c /\ c <= r[2]

\* The whitespace of str.strip(), str.split() and \s of a str pattern:
\* U+0009..000D, U+001C..0020, U+0085, U+00A0, U+1680, U+2000..200A,
\* U+2028, U+2029, U+202F, U+205F, U+3000.
Whitespace ==
    (9..13) \cup (28..32) \cup {133, 160, 5760} \cup (8192..8202)
        \cup {8232, 8233, 8239, 8287, 12288}
\* [a-zA-Z]
AsciiLetters == (65..90) \cup (97..122)
\* \d of a str pattern: the decimal digits of every script, as ranges
\* <<first, last>> of code points.
DigitRanges ==
    {<<48, 57>>, <<1632, 1641>>, <<1776, 1785>>, <<1984, 1993>>,
     <<2406, 2415>>, <<2534, 2543>>, <<2662, 2671>>, <<2790, 2799>>,
     <<2918, 2927>>, <<3046, 3055>>, <<3174, 3183>>, <<3302, 3311>>,
     <<3430, 3439>>, <<3558, 3567>>, <<3664, 3673>>, <<3792, 3801>>,
     <<3872, 3881>>, <<4160, 4169>>, <<4240, 4249>>, <<6112, 6121>>,
     <<6160, 6169>>, <<6470, 6479>>, <<6608, 6617>>, <<6784, 6793>>,
     <<6800, 6809>>, <<6992, 7001>>, <<7088, 7097>>, <<7232, 7241>>,
     <<7248, 7257>>, <<42528, 42537>>, <<43216, 43225>>,
     <<43264, 43273>>, <<43472, 43481>>, <<43504, 43513>>,
     <<43600, 43609>>, <<44016, 44025>>, <<65296, 65305>>,
     <<66720, 66729>>, <<68912, 68921>>, <<69734, 69743>>,
     <<69872, 69881>>, <<69942, 69951>>, <<70096, 70105>>,
     <<70384, 70393>>, <<70736, 70745>>, <<70864, 70873>>,
     <<71248, 71257>>, <<71360, 71369>>, <<71472, 71481>>,
     <<71904, 71913>>, <<72016, 72025>>, <<72784, 72793>>,
     <<73040, 73049>>, <<73120, 73129>>, <<92768, 92777>>,
     <<92864, 92873>>, <<93008, 93017>>, <<120782, 120831>>,
     <<123200, 123209>>, <<123632, 123641>>, <<125264, 125273>>,
     <<130032, 130041>>}
\* \w of a str pattern: the alphanumerics of every script and the
\* underscore, as ranges <<first, last>> of code points.
WordRanges ==
    {<<48, 57>>, <<65, 90>>, <<95, 95>>, <<97, 122>>, <<170, 170>>,
     <<178, 179>>, <<181, 181>>, <<185, 186>>, <<188, 190>>,
     <<192, 214>>, <<216, 246>>, <<248, 705>>, <<710, 721>>,
     <<736, 740>>, <<748, 748>>, <<750, 750>>, <<880, 884>>,
     <<886, 887>>, <<890, 893>>, <<895, 895>>, <<902, 902>>,
     <<904, 906>>, <<908, 908>>, <<910, 929>>, <<931, 1013>>,
     <<1015, 1153>>, <<1162, 1327>>, <<1329, 1366>>, <<1369, 1369>>,
     <<1376, 1416>>, <<1488, 1514>>, <<1519, 1522>>, <<1568, 1610>>,
     <<1632, 1641>>, <<1646, 1647>>, <<1649, 1747>>, <<1749, 1749>>,
     <<1765, 1766>>, <<1774, 1788>>, <<1791, 1791>>, <<1808, 1808>>,
     <<1810, 1839>>, <<1869, 1957>>, <<1969, 1969>>, <<1984, 2026>>,
     <<2036, 2037>>, <<2042, 2042>>, <<2048, 2069>>, <<2074, 2074>>,
     <<2084, 2084>>, <<2088, 2088>>, <<2112, 2136>>, <<2144, 2154>>,
     <<2160, 2183>>, <<2185, 2190>>, <<2208, 2249>>, <<2308, 2361>>,
     <<2365, 2365>>, <<2384, 2384>>, <<2392, 2401>>, <<2406, 2415>>,
     <<2417, 2432>>, <<2437, 2444>>, <<2447, 2448>>, <<2451, 2472>>,
     <<2474, 2480>>, <<2482, 2482>>, <<2486, 2489>>, <<2493, 2493>>,
     <<2510, 2510>>, <<2524, 2525>>, <<2527, 2529>>, <<2534, 2545>>,
     <<2548, 2553>>, <<2556, 2556>>, <<2565, 2570>>, <<2575, 2576>>,
     <<2579, 2600>>, <<2602, 2608>>, <<2610, 2611>>, <<2613, 2614>>,
     <<2616, 2617>>, <<2649, 2652>>, <<2654, 2654>>, <<2662, 2671>>,
     <<2674, 2676>>, <<2693, 2701>>, <<2703, 2705>>, <<2707, 2728>>,
     <<2730, 2736>>, <<2738, 2739>>, <<2741, 2745>>, <<2749, 2749>>,
     <<2768, 2768>>, <<2784, 2785>>, <<2790, 2799>>, <<2809, 2809>>,
     <<2821, 2828>>, <<2831, 2832>>, <<2835, 2856>>, <<2858, 2864>>,
     <<2866, 2867>>, <<2869, 2873>>, <<2877, 2877>>, <<2908, 2909>>,
     <<2911, 2913>>, <<2918, 2927>>, <<2929, 2935>>, <<2947, 2947>>,
     <<2949, 2954>>, <<2958, 2960>>, <<2962, 2965>>, <<2969, 2970>>,
     <<2972, 2972>>, <<2974, 2975>>, <<2979, 2980>>, <<2984, 2986>>,
     <<2990, 3001>>, <<3024, 3024>>, <<3046, 3058>>, <<3077, 3084>>,
     <<3086, 3088>>, <<3090, 3112>>, <<3114, 3129>>, <<3133, 3133>>,
     <<3160, 3162>>, <<3165, 3165>>, <<3168, 3169>>, <<3174, 3183>>,
     <<3192, 3198>>, <<3200, 3200>>, <<3205, 3212>>, <<3214, 3216>>,
     <<3218, 3240>>, <<3242, 3251>>, <<3253, 3257>>, <<3261, 3261>>,
     <<3293, 3294>>, <<3296, 3297>>, <<3302, 3311>>, <<3313, 3314>>,
     <<3332, 3340>>, <<3342, 3344>>, <<3346, 3386>>, <<3389, 3389>>,
     <<3406, 3406>>, <<3412, 3414>>, <<3416, 3425>>, <<3430, 3448>>,
     <<3450, 3455>>, <<3461, 3478>>, <<3482, 3505>>, <<3507, 3515>>,
     <<3517, 3517>>, <<3520, 3526>>, <<3558, 3567>>, <<3585, 3632>>,
     <<3634, 3635>>, <<3648, 3654>>, <<3664, 3673>>, <<3713, 3714>>,
     <<3716, 3716>>, <<3718, 3722>>, <<3724, 3747>>, <<3749, 3749>>,
     <<3751, 3760>>, <<3762, 3763>>, <<3773, 3773>>, <<3776, 3780>>,
     <<3782, 3782>>, <<3792, 3801>>, <<3804, 3807>>, <<3840, 3840>>,
     <<3872, 3891>>, <<3904, 3911>>, <<3913, 3948>>, <<3976, 3980>>,
     <<4096, 4138>>, <<4159, 4169>>, <<4176, 4181>>, <<4186, 4189>>,
     <<4193, 4193>>, <<4197, 4198>>, <<4206, 4208>>, <<4213, 4225>>,
     <<4238, 4238>>, <<4240, 4249>>, <<4256, 4293>>, <<4295, 4295>>,
     <<4301, 4301>>, <<4304, 4346>>, <<4348, 4680>>, <<4682, 4685>>,
     <<4688, 4694>>, <<4696, 4696>>, <<4698, 4701>>, <<4704, 4744>>,
     <<4746, 4749>>, <<4752, 4784>>, <<4786, 4789>>, <<4792, 4798>>,
     <<4800, 4800>>, <<4802, 4805>>, <<4808, 4822>>, <<4824, 4880>>,
     <<4882, 4885>>, <<4888, 4954>>, <<4969, 4988>>, <<4992, 5007>>,
     <<5024, 5109>>, <<5112, 5117>>, <<5121, 5740>>, <<5743, 5759>>,
     <<5761, 5786>>, <<5792, 5866>>, <<5870, 5880>>, <<5888, 5905>>,
     <<5919, 5937>>, <<5952, 5969>>, <<5984, 5996>>, <<5998, 6000>>,
     <<6016, 6067>>, <<6103, 6103>>, <<6108, 6108>>, <<6112, 6121>>,
     <<6128, 6137>>, <<6160, 6169>>, <<6176, 6264>>, <<6272, 6276>>,
     <<6279, 6312>>, <<6314, 6314>>, <<6320, 6389>>, <<6400, 6430>>,
     <<6470, 6509>>, <<6512, 6516>>, <<6528, 6571>>, <<6576, 6601>>,
     <<6608, 6618>>, <<6656, 6678>>, <<6688, 6740>>, <<6784, 6793>>,
     <<6800, 6809>>, <<6823, 6823>>, <<6917, 6963>>, <<6981, 6988>>,
     <<6992, 7001>>, <<7043, 7072>>, <<7086, 7141>>, <<7168, 7203>>,
     <<7232, 7241>>, <<7245, 7293>>, <<7296, 7304>>, <<7312, 7354>>,
     <<7357, 7359>>, <<7401, 7404>>, <<7406, 7411>>, <<7413, 7414>>,
     <<7418, 7418>>, <<7424, 7615>>, <<7680, 7957>>, <<7960, 7965>>,
     <<7968, 8005>>, <<8008, 8013>>, <<8016, 8023>>, <<8025, 8025>>,
     <<8027, 8027>>, <<8029, 8029>>, <<8031, 8061>>, <<8064, 8116>>,
     <<8118, 8124>>, <<8126, 8126>>, <<8130, 8132>>, <<8134, 8140>>,
     <<8144, 8147>>, <<8150, 8155>>, <<8160, 8172>>, <<8178, 8180>>,
     <<8182, 8188>>, <<8304, 8305>>, <<8308, 8313>>, <<8319, 8329>>,
     <<8336, 8348>>, <<8450, 8450>>, <<8455, 8455>>, <<8458, 8467>>,
     <<8469, 8469>>, <<8473, 8477>>, <<8484, 8484>>, <<8486, 8486>>,
     <<8488, 8488>>, <<8490, 8493>>, <<8495, 8505>>, <<8508, 8511>>,
     <<8517, 8521>>, <<8526, 8526>>, <<8528, 8585>>, <<9312, 9371>>,
     <<9450, 9471>>, <<10102, 10131>>, <<11264, 11492>>,
     <<11499, 11502>>, <<11506, 11507>>, <<11517, 11517>>,
     <<11520, 11557>>, <<11559, 11559>>, <<11565, 11565>>,
     <<11568, 11623>>, <<11631, 11631>>, <<11648, 11670>>,
     <<11680, 11686>>, <<11688, 11694>>, <<11696, 11702>>,
     <<11704, 11710>>, <<11712, 11718>>, <<11720, 11726>>,
     <<11728, 11734>>, <<11736, 11742>>, <<11823, 11823>>,
     <<12293, 12295>>, <<12321, 12329>>, <<12337, 12341>>,
     <<12344, 12348>>, <<12353, 12438>>, <<12445, 12447>>,
     <<12449, 12538>>, <<12540, 12543>>, <<12549, 12591>>,
     <<12593, 12686>>, <<12690, 12693>>, <<12704, 12735>>,
     <<12784, 12799>>, <<12832, 12841>>, <<12872, 12879>>,
     <<12881, 12895>>, <<12928, 12937>>, <<12977, 12991>>,
     <<13312, 19903>>, <<19968, 42124>>, <<42192, 42237>>,
     <<42240, 42508>>, <<42512, 42539>>, <<42560, 42606>>,
     <<42623, 42653>>, <<42656, 42735>>, <<42775, 42783>>,
     <<42786, 42888>>, <<42891, 42954>>, <<42960, 42961>>,
     <<42963, 42963>>, <<42965, 42969>>, <<42994, 43009>>,
     <<43011, 43013>>, <<43015, 43018>>, <<43020, 43042>>,
     <<43056, 43061>>, <<43072, 43123>>, <<43138, 43187>>,
     <<43216, 43225>>, <<43250, 43255>>, <<43259, 43259>>,
     <<43261, 43262>>, <<43264, 43301>>, <<43312, 43334>>,
     <<43360, 43388>>, <<43396, 43442>>, <<43471, 43481>>,
     <<43488, 43492>>, <<43494, 43518>>, <<43520, 43560>>,
     <<43584, 43586>>, <<43588, 43595>>, <<43600, 43609>>,
     <<43616, 43638>>, <<43642, 43642>>, <<43646, 43695>>,
     <<43697, 43697>>, <<43701, 43702>>, <<43705, 43709>>,
     <<43712, 43712>>, <<43714, 43714>>, <<43739, 43741>>,
     <<43744, 43754>>, <<43762, 43764>>, <<43777, 43782>>,
     <<43785, 43790>>, <<43793, 43798>>, <<43808, 43814>>,
     <<43816, 43822>>, <<43824, 43866>>, <<43868, 43881>>,
     <<43888, 44002>>, <<44016, 44025>>, <<44032, 55203>>,
     <<55216, 55238>>, <<55243, 55291>>, <<63744, 64109>>,
     <<64112, 64217>>, <<64256, 64262>>, <<64275, 64279>>,
     <<64285, 64285>>, <<64287, 64296>>, <<64298, 64310>>,
     <<64312, 64316>>, <<64318, 64318>>, <<64320, 64321>>,
     <<64323, 64324>>, <<64326, 64433>>, <<64467, 64829>>,
     <<64848, 64911>>, <<64914, 64967>>, <<65008, 65019>>,
     <<65136, 65140>>, <<65142, 65276>>, <<65296, 65305>>,
     <<65313, 65338>>, <<65345, 65370>>, <<65382, 65470>>,
     <<65474, 65479>>, <<65482, 65487>>, <<65490, 65495>>,
     <<65498, 65500>>, <<65536, 65547>>, <<65549, 65574>>,
     <<65576, 65594>>, <<65596, 65597>>, <<65599, 65613>>,
     <<65616, 65629>>, <<65664, 65786>>, <<65799, 65843>>,
     <<65856, 65912>>, <<65930, 65931>>, <<66176, 66204>>,
     <<66208, 66256>>, <<66273, 66299>>, <<66304, 66339>>,
     <<66349, 66378>>, <<66384, 66421>>, <<66432, 66461>>,
     <<66464, 66499>>, <<66504, 66511>>, <<66513, 66517>>,
     <<66560, 66717>>, <<66720, 66729>>, <<66736, 66771>>,
     <<66776, 66811>>, <<66816, 66855>>, <<66864, 66915>>,
     <<66928, 66938>>, <<66940, 66954>>, <<66956, 66962>>,
     <<66964, 66965>>, <<66967, 66977>>, <<66979, 66993>>,
     <<66995, 67001>>, <<67003, 67004>>, <<67072, 67382>>,
     <<67392, 67413>>, <<67424, 67431>>, <<67456, 67461>>,
     <<67463, 67504>>, <<67506, 67514>>, <<67584, 67589>>,
     <<67592, 67592>>, <<67594, 67637>>, <<67639, 67640>>,
     <<67644, 67644>>, <<67647, 67669>>, <<67672, 67702>>,
     <<67705, 67742>>, <<67751, 67759>>, <<67808, 67826>>,
     <<67828, 67829>>, <<67835, 67867>>, <<67872, 67897>>,
     <<67968, 68023>>, <<68028, 68047>>, <<68050, 68096>>,
     <<68112, 68115>>, <<68117, 68119>>, <<68121, 68149>>,
     <<68160, 68168>>, <<68192, 68222>>, <<68224, 68255>>,
     <<68288, 68295>>, <<68297, 68324>>, <<68331, 68335>>,
     <<68352, 68405>>, <<68416, 68437>>, <<68440, 68466>>,
     <<68472, 68497>>, <<68521, 68527>>, <<68608, 68680>>,
     <<68736, 68786>>, <<68800, 68850>>, <<68858, 68899>>,
     <<68912, 68921>>, <<69216, 69246>>, <<69248, 69289>>,
     <<69296, 69297>>, <<69376, 69415>>, <<69424, 69445>>,
     <<69457, 69460>>, <<69488, 69505>>, <<69552, 69579>>,
     <<69600, 69622>>, <<69635, 69687>>, <<69714, 69743>>,
     <<69745, 69746>>, <<69749, 69749>>, <<69763, 69807>>,
     <<69840, 69864>>, <<69872, 69881>>, <<69891, 69926>>,
     <<69942, 69951>>, <<69956, 69956>>, <<69959, 69959>>,
     <<69968, 70002>>, <<70006, 70006>>, <<70019, 70066>>,
     <<70081, 70084>>, <<70096, 70106>>, <<70108, 70108>>,
     <<70113, 70132>>, <<70144, 70161>>, <<70163, 70187>>,
     <<70272, 70278>>, <<70280, 70280>>, <<70282, 70285>>,
     <<70287, 70301>>, <<70303, 70312>>, <<70320, 70366>>,
     <<70384, 70393>>, <<70405, 70412>>, <<70415, 70416>>,
     <<70419, 70440>>, <<70442, 70448>>, <<70450, 70451>>,
     <<70453, 70457>>, <<70461, 70461>>, <<70480, 70480>>,
     <<70493, 70497>>, <<70656, 70708>>, <<70727, 70730>>,
     <<70736, 70745>>, <<70751, 70753>>, <<70784, 70831>>,
     <<70852, 70853>>, <<70855, 70855>>, <<70864, 70873>>,
     <<71040, 71086>>, <<71128, 71131>>, <<71168, 71215>>,
     <<71236, 71236>>, <<71248, 71257>>, <<71296, 71338>>,
     <<71352, 71352>>, <<71360, 71369>>, <<71424, 71450>>,
     <<71472, 71483>>, <<71488, 71494>>, <<71680, 71723>>,
     <<71840, 71922>>, <<71935, 71942>>, <<71945, 71945>>,
     <<71948, 71955>>, <<71957, 71958>>, <<71960, 71983>>,
     <<71999, 71999>>, <<72001, 72001>>, <<72016, 72025>>,
     <<72096, 72103>>, <<72106, 72144>>, <<72161, 72161>>,
     <<72163, 72163>>, <<72192, 72192>>, <<72203, 72242>>,
     <<72250, 72250>>, <<72272, 72272>>, <<72284, 72329>>,
     <<72349, 72349>>, <<72368, 72440>>, <<72704, 72712>>,
     <<72714, 72750>>, <<72768, 72768>>, <<72784, 72812>>,
     <<72818, 72847>>, <<72960, 72966>>, <<72968, 72969>>,
     <<72971, 73008>>, <<73030, 73030>>, <<73040, 73049>>,
     <<73056, 73061>>, <<73063, 73064>>, <<73066, 73097>>,
     <<73112, 73112>>, <<73120, 73129>>, <<73440, 73458>>,
     <<73648, 73648>>, <<73664, 73684>>, <<73728, 74649>>,
     <<74752, 74862>>, <<74880, 75075>>, <<77712, 77808>>,
     <<77824, 78894>>, <<82944, 83526>>, <<92160, 92728>>,
     <<92736, 92766>>, <<92768, 92777>>, <<92784, 92862>>,
     <<92864, 92873>>, <<92880, 92909>>, <<92928, 92975>>,
     <<92992, 92995>>, <<93008, 93017>>, <<93019, 93025>>,
     <<93027, 93047>>, <<93053, 93071>>, <<93760, 93846>>,
     <<93952, 94026>>, <<94032, 94032>>, <<94099, 94111>>,
     <<94176, 94177>>, <<94179, 94179>>, <<94208, 100343>>,
     <<100352, 101589>>, <<101632, 101640>>, <<110576, 110579>>,
     <<110581, 110587>>, <<110589, 110590>>, <<110592, 110882>>,
     <<110928, 110930>>, <<110948, 110951>>, <<110960, 111355>>,
     <<113664, 113770>>, <<113776, 113788>>, <<113792, 113800>>,
     <<113808, 113817>>, <<119520, 119539>>, <<119648, 119672>>,
     <<119808, 119892>>, <<119894, 119964>>, <<119966, 119967>>,
     <<119970, 119970>>, <<119973, 119974>>, <<119977, 119980>>,
     <<119982, 119993>>, <<119995, 119995>>, <<119997, 120003>>,
     <<120005, 120069>>, <<120071, 120074>>, <<120077, 120084>>,
     <<120086, 120092>>, <<120094, 120121>>, <<120123, 120126>>,
     <<120128, 120132>>, <<120134, 120134>>, <<120138, 120144>>,
     <<120146, 120485>>, <<120488, 120512>>, <<120514, 120538>>,
     <<120540, 120570>>, <<120572, 120596>>, <<120598, 120628>>,
     <<120630, 120654>>, <<120656, 120686>>, <<120688, 120712>>,
     <<120714, 120744>>, <<120746, 120770>>, <<120772, 120779>>,
     <<120782, 120831>>, <<122624, 122654>>, <<123136, 123180>>,
     <<123191, 123197>>, <<123200, 123209>>, <<123214, 123214>>,
     <<123536, 123565>>, <<123584, 123627>>, <<123632, 123641>>,
     <<124896, 124902>>, <<124904, 124907>>, <<124909, 124910>>,
     <<124912, 124926>>, <<124928, 125124>>, <<125127, 125135>>,
     <<125184, 125251>>, <<125259, 125259>>, <<125264, 125273>>,
     <<126065, 126123>>, <<126125, 126127>>, <<126129, 126132>>,
     <<126209, 126253>>, <<126255, 126269>>, <<126464, 126467>>,
     <<126469, 126495>>, <<126497, 126498>>, <<126500, 126500>>,
     <<126503, 126503>>, <<126505, 126514>>, <<126516, 126519>>,
     <<126521, 126521>>, <<126523, 126523>>, <<126530, 126530>>,
     <<126535, 126535>>, <<126537, 126537>>, <<126539, 126539>>,
     <<126541, 126543>>, <<126545, 126546>>, <<126548, 126548>>,
     <<126551, 126551>>, <<126553, 126553>>, <<126555, 126555>>,
     <<126557, 126557>>, <<126559, 126559>>, <<126561, 126562>>,
     <<126564, 126564>>, <<126567, 126570>>, <<126572, 126578>>,
     <<126580, 126583>>, <<126585, 126588>>, <<126590, 126590>>,
     <<126592, 126601>>, <<126603, 126619>>, <<126625, 126627>>,
     <<126629, 126633>>, <<126635, 126651>>, <<127232, 127244>>,
     <<130032, 130041>>, <<131072, 173791>>, <<173824, 177976>>,
     <<177984, 178205>>, <<178208, 183969>>, <<183984, 191456>>,
     <<194560, 195101>>, <<196608, 201546>>}
\* The class [...] of the list-item pattern as the bytes of the source spell
\* it: U+00E2, U+20AC, U+00A2 and the hyphen (the bullet U+2022 is not in it).
ListMarkerChars == {226, 8364, 162, Ord("-")}

IsSpace(c) == c \in Whitespace
IsWord(c) == InRanges(c, WordRanges)
IsAlpha(c) == c \in AsciiLetters
IsDigit(c) == InRanges(c, DigitRanges)

SetMin(S) == CHOOSE m \in S : \A n \in S : m <= n
SetMax(S) == CHOOSE m \in S : \A n \in S : m >= n

\* text.strip()
Strip(t) ==
    LET keep == {k \in 1..Len(t) : ~IsSpace(t[k])}
    IN  IF keep = {} THEN <<>> ELSE SubSeq(t, SetMin(keep), SetMax(keep))

\* re.sub(r'\s+', ' ', text)
CollapseWhitespace(t) ==
    LET idx == [k \in 1..Len(t) |-> k]
        first == SelectSeq(idx, LAMBDA k : ~IsSpace(t[k]) \/ k = 1 \/ ~IsSpace(t[k - 1]))
    IN  [j \in 1..Len(first) |-> IF IsSpace(t[first[j]]) THEN Ord(" ") ELSE t[first[j]]]

\* Faulty variant of StripNonWord: the pattern without its two +, which
\* takes one character from each end.
StripNonWordOnce(t) ==
    LET n == Len(t)
        lead == IF n >= 1 /\ ~IsWord(t[1]) THEN 2 ELSE 1
        trail == IF n >= lead /\ ~IsWord(t[n]) THEN n - 1 ELSE n
    IN  SubSeq(t, lead, trail)

\* re.sub(r'^\W+|\W+$', '', text)
StripNonWord(t) ==
    LET keep == {k \in 1..Len(t) : IsWord(t[k])}
    IN  IF keep = {} THEN <<>> ELSE SubSeq(t, SetMin(keep), SetMax(keep))

\* re.search('[a-zA-Z]', text)
HasAlpha(t) == \E k \in 1..Len(t) : IsAlpha(t[k])

\* len(text.split())
WordCount(t) ==
    Cardinality({k \in 1..Len(t) : ~IsSpace(t[k]) /\ (k = 1 \/ IsSpace(t[k - 1]))})

\* re.match(r'^\s*([<class>-]|(\d+\.))\s+', text)
IsListItem(t) ==
    LET n == Len(t)
        nonsp == {k \in 1..n : ~IsSpace(t[k])}
        s == IF nonsp = {} THEN n + 1 ELSE SetMin(nonsp)
        nondig == {k \in s..n : ~IsDigit(t[k])}
        e == IF nondig = {} THEN n + 1 ELSE SetMin(nondig)
    IN  /\ s <= n
        /\ \/ t[s] \in ListMarkerChars /\ s + 1 <= n /\ IsSpace(t[s + 1])
           \/ e > s /\ e <= n /\ t[e] = Ord(".") /\ e + 1 <= n /\ IsSpace(t[e + 1])

\* Faulty variant of JoinSpace: the texts joined without the space.
JoinNoSpace(s1, s2) == s1 \o s2

\* current_block["text"] += " " + current_line["text"]
JoinSpace(s1, s2) == s1 \o Text(<<" ">>) \o s2

-----------------------------------------------------------------------------
(* collections.Counter(...).most_common(1)[0][0]: the counts are kept in   *)
(* first-insertion order and the first entry with the largest count wins.  *)

Count(s, x) == Cardinality({k \in 1..Len(s) : s[k] = x})

\* Faulty variant of MostCommon: the last entry with the largest count wins.
MostCommonLast(s) ==
    s[SetMax({k \in 1..Len(s) : \A j \in 1..Len(s) : Count(s, s[k]) >= Count(s, s[j])})]

\* Counter(s).most_common(1)[0][0]
MostCommon(s) ==
    s[SetMin({k \in 1..Len(s) : \A j \in 1..Len(s) : Count(s, s[k]) >= Count(s, s[j])})]

RECURSIVE SumSeq(_)
SumSeq(s) == IF s = <<>> THEN 0 ELSE Head(s) + SumSeq(Tail(s))

MapSeq(s, F(_)) == [k \in 1..Len(s) |-> F(s[k])]

-----------------------------------------------------------------------------
(* Program constants.                                                      *)

page_height == 792
header_margin_pct == 12
footer_margin_pct == 12
min_occurrence_ratio_pct == 50
max_words == 20
line_proximity_threshold == 4

Zero == [num |-> 0, den |-> 1]
NotComputed == [num |-> 0, den |-> 0]

-----------------------------------------------------------------------------
(* ingest.py: document statistics and filters.                             *)

\* Faulty variant of calculate_weighted_mean_font_size: the weighted sum
\* divided by the number of blocks instead of the number of characters.
mean_per_block(bs) ==
    LET weighted_font_sum == SumSeq(MapSeq(bs, LAMBDA b : b.font_size * Len(b.text)))
    IN  IF bs = <<>> THEN Zero ELSE [num |-> weighted_font_sum, den |-> Len(bs)]

calculate_weighted_mean_font_size(bs) ==
    LET total_char_length == SumSeq(MapSeq(bs, LAMBDA b : Len(b.text)))
        weighted_font_sum == SumSeq(MapSeq(bs, LAMBDA b : b.font_size * Len(b.text)))
    IN  IF bs = <<>> THEN Zero
        ELSE IF total_char_length = 0 THEN Zero
        ELSE [num |-> weighted_font_sum, den |-> total_char_length]

\* Faulty variant of IsLargeFont: >= in place of >.
IsLargeFontAtLeast(b, w) == 2 * b.font_size * w.den >= 3 * w.num

\* block['font_size'] > weighted_avg_font_size * 1.5
IsLargeFont(b, w) == 2 * b.font_size * w.den > 3 * w.num

filter_long_blocks(bs, w, maxw) ==
    SelectSeq(bs, LAMBDA b : ~(WordCount(b.text) > maxw) \/ IsLargeFont(b, w))

filter_small_fonts_by_weighted_mean(bs, w) ==
    IF bs = <<>> THEN <<>>
    ELSE LET colors == MapSeq(bs, LAMBDA b : b.color)
             majority_color == MostCommon(colors)
         IN  SelectSeq(bs, LAMBDA b : \/ b.font_size * w.den > w.num
                                      \/ b.is_bold
                                      \/ b.color # majority_color)

\* Faulty variant of MinPages: the threshold not raised to 2.
MinPagesUnclamped(pcount) == (pcount * min_occurrence_ratio_pct) \div 100

\* int(page_count * min_occurrence_ratio), raised to 2
MinPages(pcount) ==
    LET min_pages == (pcount * min_occurrence_ratio_pct) \div 100
    IN  IF min_pages < 2 THEN 2 ELSE min_pages

find_repeating_texts(bs, pcount) ==
    IF bs = <<>> \/ pcount = 0 THEN {}
    ELSE LET texts == {bs[k].text : k \in 1..Len(bs)}
             pages(t) == {bs[k].page_number : k \in {j \in 1..Len(bs) : bs[j].text = t}}
         IN  {t \in texts : Cardinality(pages(t)) >= MinPages(pcount)}

filter_header_footer_blocks(bs, pcount) ==
    IF bs = <<>> THEN <<>>
    ELSE LET repeating_texts == find_repeating_texts(bs, pcount)
             \* bbox[1] < page_height * header_margin
             is_in_header(b) == 100 * b.bbox[2] < page_height * header_margin_pct
             \* bbox[3] > page_height * (1 - footer_margin)
             is_in_footer(b) == 100 * b.bbox[4] > page_height * (100 - footer_margin_pct)
         IN  IF repeating_texts = {} THEN bs
             ELSE SelectSeq(bs, LAMBDA b : ~(b.text \in repeating_texts
                                             /\ (is_in_header(b) \/ is_in_footer(b))))

CleanText(t) == StripNonWord(CollapseWhitespace(Strip(t)))

post_process_blocks(bs) ==
    LET cleaned == MapSeq(bs, LAMBDA b : [b EXCEPT !.text = CleanText(b.text)])
    IN  SelectSeq(cleaned, LAMBDA b : b.text # <<>> /\ HasAlpha(b.text))

\* The list passed to post_process_blocks, after the call: block["text"] = text
\* is assigned on the dicts of the argument that are kept; a dropped dict
\* keeps the text it had.
post_process_blocks_argument(bs) ==
    MapSeq(bs, LAMBDA b : IF CleanText(b.text) # <<>> /\ HasAlpha(CleanText(b.text))
                          THEN [b EXCEPT !.text = CleanText(b.text)]
                          ELSE b)

-----------------------------------------------------------------------------
(* ingest.py: the Block Merger of extract_logical_text_blocks.  A line is  *)
(* [text, bbox, style] with bbox = <<x0, y0, x1, y1>> and                  *)
(* style = <<size, font, is_bold, color>>.                                 *)

Min2(a, b) == IF a <= b THEN a ELSE b
Max2(a, b) == IF a >= b THEN a ELSE b

\* Rect.include_rect on two non-empty rectangles: their union.
IncludeRect(r, q) ==
    <<Min2(r[1], q[1]), Min2(r[2], q[2]), Max2(r[3], q[3]), Max2(r[4], q[4])>>

NewBlock(line) == [text |-> line.text, bbox |-> line.bbox, style |-> line.style]

\* (current_line.bbox.y0 - prev_line.bbox.y1) < line_proximity_threshold
VerticallyClose(prev_line, current_line) ==
    current_line.bbox[2] - prev_line.bbox[4] < line_proximity_threshold

\* Faulty variant of Merges: the styles are not compared.
MergesIgnoringStyle(prev_line, current_line) ==
    /\ VerticallyClose(prev_line, current_line)
    /\ ~IsListItem(current_line.text)

\* The condition of the merge branch of the loop body.
Merges(prev_line, current_line) ==
    /\ current_line.style = prev_line.style
    /\ VerticallyClose(prev_line, current_line)
    /\ ~IsListItem(current_line.text)

\* One iteration of the loop: the blocks it closes and the open block after it.
MergeIteration(cb, prev_line, current_line) ==
    IF Merges(prev_line, current_line)
    THEN [closed |-> <<>>,
          current |-> [cb EXCEPT !.text = JoinSpace(cb.text, current_line.text),
                                 !.bbox = IncludeRect(cb.bbox, current_line.bbox)]]
    ELSE [closed |-> <<cb>>, current |-> NewBlock(current_line)]

\* The loop from iteration k (lines[k-1], lines[k] of the code) to its end,
\* and the append of the trailing block.
RECURSIVE MergeFrom(_, _, _, _)
MergeFrom(ls, k, cb, mb) ==
    IF k >= Len(ls) THEN Append(mb, cb)
    ELSE LET r == MergeIteration(cb, ls[k], ls[k + 1])
         IN  MergeFrom(ls, k + 1, r.current, mb \o r.closed)

MergePage(ls) == IF ls = <<>> THEN <<>> ELSE MergeFrom(ls, 1, NewBlock(ls[1]), <<>>)

\* The record appended to final_blocks for a merged block of page page_num + 1.
FinalBlock(page_number, mblock) ==
    [page_number |-> page_number,
     text |-> mblock.text,
     bbox |-> mblock.bbox,
     font_size |-> mblock.style[1],
     font_name |-> mblock.style[2],
     is_bold |-> mblock.style[3],
     color |-> mblock.style[4]]

RECURSIVE PagesFrom(_, _)
PagesFrom(d, p) ==
    IF p > Len(d) THEN <<>>
    ELSE MapSeq(MergePage(d[p]), LAMBDA m : FinalBlock(p, m)) \o PagesFrom(d, p + 1)

\* The pair returned for a document that opens.
extract_logical_text_blocks(d) == [blocks |-> PagesFrom(d, 1), page_count |-> Len(d)]

-----------------------------------------------------------------------------
(* ingest.py: the Feature Engineer.                                        *)

Featured(b, modal_font_size) ==
    [page_number |-> b.page_number, text |-> b.text, bbox |-> b.bbox,
     font_size |-> b.font_size, font_name |-> b.font_name,
     is_bold |-> b.is_bold, color |-> b.color,
     relative_font_size |-> IF modal_font_size > 0
                            THEN [num |-> b.font_size, den |-> modal_font_size]
                            ELSE Zero,
     is_bold_numeric |-> IF b.is_bold THEN 1 ELSE 0,
     char_count |-> Len(b.text),
     word_count |-> WordCount(b.text),
     vertical_position |-> [num |-> b.bbox[2], den |-> page_height]]

engineer_layout_features(bs) ==
    IF bs = <<>> THEN <<>>
    ELSE LET font_sizes == SelectSeq(MapSeq(bs, LAMBDA b : b.font_size), LAMBDA f : f > 0)
         IN  IF font_sizes = <<>> THEN <<>>
             ELSE MapSeq(bs, LAMBDA b : Featured(b, MostCommon(font_sizes)))

\* The list passed to engineer_layout_features, after the call: the five
\* fields are written into the dicts of the argument and that list is what
\* is returned; the two early returns leave it as it was.
engineer_layout_features_argument(bs) ==
    IF engineer_layout_features(bs) = <<>> THEN bs ELSE engineer_layout_features(bs)

-----------------------------------------------------------------------------
(* Bounds of the checked input sets.                                       *)

MaxBlocks == 3          \* blocks in a header/footer or feature input
MaxPages == 2           \* page numbers carried by those blocks
MaxLongBlocks == 2      \* blocks in a long-block filter input
MaxMeanBlocks == 3      \* blocks in a weighted-mean input
MaxColorBlocks == 4     \* blocks in a small-font filter input
MaxTextLen == 4         \* characters of a text handed to the cleanup
MaxLines == 3           \* lines of a page handed to the Block Merger
MaxDocPages == 2        \* pages of a document in a full run
MaxPageLines == 2       \* lines of a page in a full run

SeqsUpTo(S, n) == UNION {[1..k -> S] : k \in 0..n}

\* A text of nwords words of wlen characters each, single-spaced.
MakeText(nwords, wlen) ==
    LET space == Ord(" ")
        letter == Ord("a")
    IN  [p \in 1..(IF nwords = 0 THEN 0 ELSE nwords * wlen + nwords - 1) |->
            IF p % (wlen + 1) = 0 THEN space ELSE letter]

NoBlock == [text |-> <<>>, bbox |-> <<0, 0, 0, 0>>, style |-> <<0, "", FALSE, 0>>]
BodyBox == <<50, 400, 300, 412>>

\* What a call of one function leaves untouched in the variables of the run.
IdleMerger ==
    /\ doc = <<>>
    /\ lines = <<>>
    /\ i = 0
    /\ current_block = NoBlock
    /\ merged_blocks = <<>>

-----------------------------------------------------------------------------
(* filter_header_footer_blocks called on any block collection.             *)

HFTexts == {Text(<<"a">>), Text(<<"b">>)}
\* top 95 is inside the header band (95 < 95.04), bottom 697 inside the footer
\* band (697 > 696.96); the box from 96 to 696 is outside both.
HFBoxes == {<<50, 95, 300, 107>>, <<50, 96, 300, 696>>, <<50, 685, 300, 697>>}
HFBlocks ==
    [page_number : 1..MaxPages, text : HFTexts, bbox : HFBoxes, font_size : {11},
     font_name : {"helv"}, is_bold : {FALSE}, color : {0}]
HFPageCounts == {0, 1, MaxPages, 3 * MaxPages}

InitHeaderFooter ==
    /\ pc = "call"
    /\ entry = "filter_header_footer_blocks"
    /\ IdleMerger
    /\ blocks \in SeqsUpTo(HFBlocks, MaxBlocks)
    /\ page_count \in HFPageCounts
    /\ weighted = NotComputed
    /\ returned = <<>>
    /\ calls = <<>>

Call_filter_header_footer_blocks ==
    /\ pc = "call"
    /\ entry = "filter_header_footer_blocks"
    /\ returned' = filter_header_footer_blocks(blocks, page_count)
    /\ pc' = "return"
    /\ calls' = Append(calls, entry)
    /\ UNCHANGED <<entry, doc, lines, i, current_block, merged_blocks, blocks,
                   page_count, weighted>>

SpecHeaderFooter == InitHeaderFooter /\ [][Call_filter_header_footer_blocks]_vars

-----------------------------------------------------------------------------
(* calculate_weighted_mean_font_size called on any block collection.       *)

MeanBlocks ==
    [page_number : {1}, text : {MakeText(1, n) : n \in {0, 1, 3}}, bbox : {BodyBox},
     font_size : {9, 11, 18}, font_name : {"helv"}, is_bold : {FALSE}, color : {0}]

InitMean ==
    /\ pc = "call"
    /\ entry = "calculate_weighted_mean_font_size"
    /\ IdleMerger
    /\ blocks \in SeqsUpTo(MeanBlocks, MaxMeanBlocks)
    /\ page_count = 1
    /\ weighted = NotComputed
    /\ returned = NotComputed
    /\ calls = <<>>

Call_calculate_weighted_mean_font_size ==
    /\ pc = "call"
    /\ entry = "calculate_weighted_mean_font_size"
    /\ returned' = calculate_weighted_mean_font_size(blocks)
    /\ pc' = "return"
    /\ calls' = Append(calls, entry)
    /\ UNCHANGED <<entry, doc, lines, i, current_block, merged_blocks, blocks,
                   page_count, weighted>>

SpecMean == InitMean /\ [][Call_calculate_weighted_mean_font_size]_vars

-----------------------------------------------------------------------------
(* filter_long_blocks called with the default max_words.                   *)

LongBlocks ==
    [page_number : {1}, text : {MakeText(n, 1) : n \in {0, 1, 20, 21, 25}},
     bbox : {BodyBox}, font_size : {0, 8, 10, 15, 16}, font_name : {"helv"},
     is_bold : {FALSE}, color : {0}]
LongMeans == {Zero, [num |-> 5, den |-> 1], [num |-> 10, den |-> 1], [num |-> 21, den |-> 2]}

InitLong ==
    /\ pc = "call"
    /\ entry = "filter_long_blocks"
    /\ IdleMerger
    /\ blocks \in SeqsUpTo(LongBlocks, MaxLongBlocks)
    /\ page_count = 1
    /\ weighted \in LongMeans
    /\ returned = <<>>
    /\ calls = <<>>

Call_filter_long_blocks ==
    /\ pc = "call"
    /\ entry = "filter_long_blocks"
    /\ returned' = filter_long_blocks(blocks, weighted, max_words)
    /\ pc' = "return"
    /\ calls' = Append(calls, entry)
    /\ UNCHANGED <<entry, doc, lines, i, current_block, merged_blocks, blocks,
                   page_count, weighted>>

SpecLong == InitLong /\ [][Call_filter_long_blocks]_vars

-----------------------------------------------------------------------------
(* filter_small_fonts_by_weighted_mean called on any block collection.     *)

ColorBlocks ==
    [page_number : {1}, text : {Text(<<"a">>)}, bbox : {BodyBox}, font_size : {10, 12},
     font_name : {"helv"}, is_bold : BOOLEAN, color : {0, 255}]
ColorMeans == {[num |-> 11, den |-> 1], [num |-> 12, den |-> 1]}

InitSmall ==
    /\ pc = "call"
    /\ entry = "filter_small_fonts_by_weighted_mean"
    /\ IdleMerger
    /\ blocks \in SeqsUpTo(ColorBlocks, MaxColorBlocks)
    /\ page_count = 1
    /\ weighted \in ColorMeans
    /\ returned = <<>>
    /\ calls = <<>>

Call_filter_small_fonts_by_weighted_mean ==
    /\ pc = "call"
    /\ entry = "filter_small_fonts_by_weighted_mean"
    /\ returned' = filter_small_fonts_by_weighted_mean(blocks, weighted)
    /\ pc' = "return"
    /\ calls' = Append(calls, entry)
    /\ UNCHANGED <<entry, doc, lines, i, current_block, merged_blocks, blocks,
                   page_count, weighted>>

SpecSmall == InitSmall /\ [][Call_filter_small_fonts_by_weighted_mean]_vars

-----------------------------------------------------------------------------
(* Claims about the single functions.                                      *)

PagesOfText(bs, t) == {bs[k].page_number : k \in {j \in 1..Len(bs) : bs[j].text = t}}
WithText(bs, t) == SelectSeq(bs, LAMBDA b : b.text = t)
InBand(b) == 100 * b.bbox[2] < 9504 \/ 100 * b.bbox[4] > 69696

\* C1: filter_header_footer_blocks never removes a block whose text occurs on
\* exactly one page: the blocks carrying such a text are returned unchanged,
\* all of them and in order, for every page_count and every box position.
C1_UniqueTextNeverRemoved ==
    pc = "return" =>
        \A t \in HFTexts :
            Cardinality(PagesOfText(blocks, t)) = 1 => WithText(returned, t) = WithText(blocks, t)

\* C1 witness: a block with a one-page text sits in the header or footer band
\* and is returned, while the filter removed a repeating block of the same call.
C1_Witness ==
    /\ pc = "return"
    /\ Len(returned) < Len(blocks)
    /\ \E k \in 1..Len(blocks) :
          /\ Cardinality(PagesOfText(blocks, blocks[k].text)) = 1
          /\ InBand(blocks[k])
          /\ \E j \in 1..Len(returned) : returned[j] = blocks[k]

FontSizesOf(bs) == {bs[k].font_size : k \in 1..Len(bs)}
TotalChars(bs) == SumSeq([k \in 1..Len(bs) |-> Len(bs[k].text)])
WithinFontRange(bs, w) ==
    /\ w.den > 0
    /\ SetMin(FontSizesOf(bs)) * w.den <= w.num
    /\ w.num <= SetMax(FontSizesOf(bs)) * w.den

\* C5 (as amended): for every block collection whose texts hold at least one
\* character, calculate_weighted_mean_font_size lies in the closed interval
\* [minimum block font size, maximum block font size].
C5_MeanWithinRangeWhenTextPresent ==
    (pc = "return" /\ TotalChars(blocks) > 0) => WithinFontRange(blocks, returned)

\* C5 (as claimed): the same for every non-empty collection, those whose
\* texts are all empty included.
C5_MeanWithinRangeNonEmpty ==
    (pc = "return" /\ blocks # <<>>) => WithinFontRange(blocks, returned)

\* C5 witness: blocks of different font sizes with text, and a mean strictly
\* between the smallest and the largest size.
C5_Witness ==
    /\ pc = "return"
    /\ TotalChars(blocks) > 0
    /\ Cardinality(FontSizesOf(blocks)) > 1
    /\ SetMin(FontSizesOf(blocks)) * returned.den < returned.num
    /\ returned.num < SetMax(FontSizesOf(blocks)) * returned.den

\* The number of words of a text of one-character words.
WordsOf(t) == CHOOSE n \in 0..30 : t = MakeText(n, 1)
\* More than max_words words, and a font size of at most 1.5 times the mean.
LongAndNotLarge(b, w) == WordsOf(b.text) > 20 /\ 10 * b.font_size * w.den <= 15 * w.num
RemovedAsLong(w) ==
    /\ returned = SelectSeq(blocks, LAMBDA b : ~LongAndNotLarge(b, w))
    /\ \A k \in 1..Len(blocks) :
          WordsOf(blocks[k].text) <= 20 => \E j \in 1..Len(returned) : returned[j] = blocks[k]
    /\ \A k \in 1..Len(blocks) :
          (WordsOf(blocks[k].text) = 25 /\ blocks[k].font_size * w.den = w.num)
              => \A j \in 1..Len(returned) : returned[j] # blocks[k]
KeptAtSixteenTenths(b, w) ==
    (WordsOf(b.text) = 25 /\ 10 * b.font_size * w.den = 16 * w.num)
        => \E j \in 1..Len(returned) : returned[j] = b

\* C4: filter_long_blocks removes a block iff it has more than max_words (20)
\* words and its font size does not exceed 1.5 times the weighted mean passed
\* in; every block of at most 20 words is kept; a 25-word block whose font
\* size equals the mean is removed, and the otherwise identical block whose
\* font size is 1.6 times the mean is kept (the two blocks differ, so the
\* mean is positive: at mean 0 they are one block, removed by the rule).
C4_LongBlockRule ==
    pc = "return" =>
        /\ RemovedAsLong(weighted)
        /\ weighted.num > 0 => \A k \in 1..Len(blocks) : KeptAtSixteenTenths(blocks[k], weighted)

\* C4 witness: with mean 10, the 25-word block of size 10 is removed and the
\* 25-word block of size 16 is returned.
C4_Witness ==
    /\ pc = "return"
    /\ weighted = [num |-> 10, den |-> 1]
    /\ Len(blocks) = 2
    /\ blocks[1].text = MakeText(25, 1) /\ blocks[1].font_size = 10
    /\ blocks[2].text = MakeText(25, 1) /\ blocks[2].font_size = 16
    /\ returned = <<blocks[2]>>

ColorsOf(bs) == {bs[k].color : k \in 1..Len(bs)}
ColorCount(bs, c) == Cardinality({k \in 1..Len(bs) : bs[k].color = c})
TopCount(bs) == SetMax({ColorCount(bs, c) : c \in ColorsOf(bs)})
FirstSeenAt(bs, c) == SetMin({k \in 1..Len(bs) : bs[k].color = c})
\* The position at which colour c has been seen n times.
ReachesAt(bs, c, n) ==
    SetMin({k \in 1..Len(bs) : Cardinality({j \in 1..k : bs[j].color = c}) = n})
TopColors(bs) == {c \in ColorsOf(bs) : ColorCount(bs, c) = TopCount(bs)}
\* Among the most frequent colours, the one that occurs first.
FirstSeenMajority(bs) ==
    CHOOSE c \in TopColors(bs) : \A d \in TopColors(bs) : FirstSeenAt(bs, c) <= FirstSeenAt(bs, d)
\* Among the most frequent colours, the one whose count is complete first.
FirstToReachMajority(bs) ==
    CHOOSE c \in TopColors(bs) :
        \A d \in TopColors(bs) : ReachesAt(bs, c, TopCount(bs)) <= ReachesAt(bs, d, TopCount(bs))
KeptAgainst(bs, w, majority) ==
    SelectSeq(bs, LAMBDA b : b.font_size * w.den > w.num \/ b.is_bold \/ b.color # majority)

\* C10 (as amended): the majority colour is the most frequent block colour,
\* ties going to the colour that occurs first in block order; a block is kept
\* iff its font size exceeds the weighted mean, or it is bold, or its colour
\* differs from the majority colour, decided once for each block.
C10_SmallFontRuleFirstSeen ==
    pc = "return" =>
        returned = IF blocks = <<>> THEN <<>>
                   ELSE KeptAgainst(blocks, weighted, FirstSeenMajority(blocks))

\* C10 (as claimed): ties go to the first colour to reach the highest count
\* while the blocks are scanned in order.
C10_SmallFontRuleFirstToReach ==
    pc = "return" =>
        returned = IF blocks = <<>> THEN <<>>
                   ELSE KeptAgainst(blocks, weighted, FirstToReachMajority(blocks))

\* C10 witness: two colours tie for the highest count, the one seen first is
\* not the one whose count is complete first, and the filter removed a block.
C10_Witness ==
    /\ pc = "return"
    /\ Cardinality(TopColors(blocks)) = 2
    /\ FirstSeenMajority(blocks) # FirstToReachMajority(blocks)
    /\ Len(returned) < Len(blocks)
    /\ returned # <<>>

-----------------------------------------------------------------------------
(* post_process_blocks called on a collection, and again on what it        *)
(* returned.                                                                *)

\* a, 1, space, tab, no-break space (U+00A0), hyphen, underscore and the
\* letter a-circumflex (U+00E2), a word character outside [a-zA-Z].
CleanChars == {Ord("a"), Ord("1"), Ord(" "), 9, 160, Ord("-"), Ord("_"), 226}
CleanTexts(n) == SeqsUpTo(CleanChars, n)
CleanBlock(t) ==
    [page_number |-> 1, text |-> t, bbox |-> BodyBox, font_size |-> 11,
     font_name |-> "helv", is_bold |-> FALSE, color |-> 0]

InitClean ==
    /\ pc = "call"
    /\ entry = "post_process_blocks"
    /\ IdleMerger
    /\ \/ \E t \in CleanTexts(MaxTextLen) : blocks = <<CleanBlock(t)>>
       \/ \E t1, t2 \in CleanTexts(2) : blocks = <<CleanBlock(t1), CleanBlock(t2)>>
       \/ blocks = <<>>
    /\ page_count = 1
    /\ weighted = NotComputed
    /\ returned = <<>>
    /\ calls = <<>>

Call_post_process_blocks ==
    /\ pc = "call"
    /\ entry = "post_process_blocks"
    /\ returned' = post_process_blocks(blocks)
    /\ blocks' = post_process_blocks_argument(blocks)
    /\ pc' = "return"
    /\ calls' = Append(calls, entry)
    /\ UNCHANGED <<entry, doc, lines, i, current_block, merged_blocks, page_count, weighted>>

\* The second run: the collection returned by the first is the argument.
CallAgain_post_process_blocks ==
    /\ pc = "return"
    /\ entry = "post_process_blocks"
    /\ blocks' = post_process_blocks_argument(returned)
    /\ returned' = post_process_blocks(returned)
    /\ pc' = "return2"
    /\ calls' = Append(calls, entry)
    /\ UNCHANGED <<entry, doc, lines, i, current_block, merged_blocks, page_count, weighted>>

NextClean == Call_post_process_blocks \/ CallAgain_post_process_blocks
SpecClean == InitClean /\ [][NextClean]_vars

\* C6: text cleanup is idempotent: the collection returned by a second run of
\* post_process_blocks on the result of the first is that result as it was
\* before the second run, in membership, order and every text.  (The second
\* run writes into the dicts of the first result, so the two are compared
\* across the step of the second call and not afterwards.)
C6_CleanupIdempotent ==
    [][(pc = "return" /\ pc' = "return2") => returned' = returned]_vars

\* C6 witness: both runs have been made, and the collection they return
\* holds a kept block whose cleaned text has an inner space.
C6_Witness ==
    /\ pc = "return2"
    /\ Len(calls) = 2
    /\ \E k \in 1..Len(returned) :
          /\ Len(returned[k].text) >= 3
          /\ returned[k].text[2] = Ord(" ")

-----------------------------------------------------------------------------
(* engineer_layout_features called on any block collection.                *)

FeatureBlocks ==
    [page_number : {1}, text : {Text(<<"a">>), Text(<<"a", " ", "b">>)}, bbox : {BodyBox},
     font_size : {0, 11, 18}, font_name : {"helv"}, is_bold : BOOLEAN, color : {0}]
SizedBlock(fs) ==
    [page_number |-> 1, text |-> Text(<<"a">>), bbox |-> BodyBox, font_size |-> fs,
     font_name |-> "helv", is_bold |-> FALSE, color |-> 0]
ModalExample == <<SizedBlock(18), SizedBlock(18), SizedBlock(11), SizedBlock(11), SizedBlock(11)>>

InitFeatures ==
    /\ pc = "call"
    /\ entry = "engineer_layout_features"
    /\ IdleMerger
    /\ \/ blocks \in SeqsUpTo(FeatureBlocks, MaxBlocks)
       \/ blocks = ModalExample
    /\ page_count = 1
    /\ weighted = NotComputed
    /\ returned = <<>>
    /\ calls = <<>>

Call_engineer_layout_features ==
    /\ pc = "call"
    /\ entry = "engineer_layout_features"
    /\ returned' = engineer_layout_features(blocks)
    /\ blocks' = engineer_layout_features_argument(blocks)
    /\ pc' = "return"
    /\ calls' = Append(calls, entry)
    /\ UNCHANGED <<entry, doc, lines, i, current_block, merged_blocks, page_count, weighted>>

SpecFeatures == InitFeatures /\ [][Call_engineer_layout_features]_vars

PositiveSizes(bs) == {bs[k].font_size : k \in {j \in 1..Len(bs) : bs[j].font_size > 0}}
SizeCount(bs, f) == Cardinality({k \in 1..Len(bs) : bs[k].font_size = f})
\* f is a most frequent font size among the blocks of positive size.
IsModal(bs, f) ==
    f \in PositiveSizes(bs) /\ \A g \in PositiveSizes(bs) : SizeCount(bs, f) >= SizeCount(bs, g)
\* r is the block b with the five features added.
AnnotatedFrom(r, b, bs) ==
    /\ r.page_number = b.page_number /\ r.text = b.text /\ r.bbox = b.bbox
    /\ r.font_size = b.font_size /\ r.font_name = b.font_name
    /\ r.is_bold = b.is_bold /\ r.color = b.color
    /\ r.is_bold_numeric = (IF b.is_bold THEN 1 ELSE 0)
    /\ r.char_count = Len(b.text)
    /\ r.word_count = Cardinality({k \in 1..Len(b.text) : b.text[k] = Ord(" ")}) + 1
    /\ r.vertical_position.num * 792 = b.bbox[2] * r.vertical_position.den
    /\ IF PositiveSizes(bs) = {}
       THEN r.relative_font_size.num = 0
       ELSE \E f \in PositiveSizes(bs) :
               /\ IsModal(bs, f)
               /\ r.relative_font_size.num * f = b.font_size * r.relative_font_size.den

\* C7 (as claimed): engineer_layout_features returns every input block, in
\* input order, each annotated with relative_font_size = font_size / modal
\* font size (0 when no block has a positive font size), is_bold_numeric,
\* char_count, word_count and vertical_position; no block is dropped.
C7_EveryBlockAnnotated ==
    [][(pc = "call" /\ pc' = "return") =>
          /\ Len(returned') = Len(blocks)
          /\ \A k \in 1..Len(returned') : AnnotatedFrom(returned'[k], blocks[k], blocks)]_vars

\* C7, the part the code keeps: whenever some block has a positive font size,
\* every block is returned annotated, and the sizes {18,18,11,11,11} have
\* modal size 11, giving the 18-point blocks 18/11.
C7_AnnotatedWhenModalExists ==
    [][(pc = "call" /\ pc' = "return" /\ PositiveSizes(blocks) # {}) =>
          /\ Len(returned') = Len(blocks)
          /\ \A k \in 1..Len(returned') : AnnotatedFrom(returned'[k], blocks[k], blocks)
          /\ blocks' = returned'
          /\ blocks = ModalExample => returned'[1].relative_font_size = [num |-> 18, den |-> 11]]_vars

-----------------------------------------------------------------------------
(* The Block Merger loop of extract_logical_text_blocks on the lines of    *)
(* one page, one iteration at a time.                                      *)

\* "x", "-x", "- x", bullet (U+2022) " x", "1. x", and "3. x" with the
\* Arabic-Indic digit three (U+0663).
MergeTexts ==
    {Text(<<"x">>), Text(<<"-", "x">>), Text(<<"-", " ", "x">>),
     <<8226>> \o Text(<<" ", "x">>), Text(<<"1", ".", " ", "x">>),
     <<1635>> \o Text(<<".", " ", "x">>)}
MergeStyles == {<<11, "helv", FALSE, 0>>, <<11, "helv", TRUE, 0>>}
MergeGaps == {0, 4}
LineChoices == [text : MergeTexts, style : MergeStyles, gap : MergeGaps]

\* The lines of a page, each 12 units high and cs[k].gap below the one before.
RECURSIVE LineTop(_, _)
LineTop(cs, k) == IF k = 1 THEN 100 ELSE LineTop(cs, k - 1) + 12 + cs[k].gap
BuildLines(cs) ==
    [k \in 1..Len(cs) |->
        [text |-> cs[k].text,
         bbox |-> <<50, LineTop(cs, k), 300, LineTop(cs, k) + 12>>,
         style |-> cs[k].style]]

InitMerge ==
    /\ pc = "merge_start"
    /\ entry = "extract_logical_text_blocks"
    /\ doc = <<>>
    /\ \E cs \in SeqsUpTo(LineChoices, MaxLines) :
          /\ cs # <<>> => cs[1].gap = 0
          /\ lines = BuildLines(cs)
    /\ i = 0
    /\ current_block = NoBlock
    /\ merged_blocks = <<>>
    /\ blocks = <<>>
    /\ page_count = 1
    /\ weighted = NotComputed
    /\ returned = <<>>
    /\ calls = <<>>

\* if not lines: continue
Merger_SkipEmptyPage ==
    /\ pc = "merge_start"
    /\ lines = <<>>
    /\ pc' = "merge_done"
    /\ UNCHANGED <<entry, doc, lines, i, current_block, merged_blocks, blocks,
                   page_count, weighted, returned, calls>>

\* current_block = {... lines[0] ...}; the loop starts at i = 1
Merger_Start ==
    /\ pc = "merge_start"
    /\ lines # <<>>
    /\ current_block' = NewBlock(lines[1])
    /\ merged_blocks' = <<>>
    /\ i' = 1
    /\ pc' = "merge_loop"
    /\ UNCHANGED <<entry, doc, lines, blocks, page_count, weighted, returned, calls>>

\* One iteration: prev_line, current_line = lines[i-1], lines[i] (0-based)
Merger_Iterate ==
    /\ pc = "merge_loop"
    /\ i < Len(lines)
    /\ LET r == MergeIteration(current_block, lines[i], lines[i + 1])
       IN  /\ current_block' = r.current
           /\ merged_blocks' = merged_blocks \o r.closed
    /\ i' = i + 1
    /\ UNCHANGED <<pc, entry, doc, lines, blocks, page_count, weighted, returned, calls>>

\* merged_blocks.append(current_block), and the page's records in final_blocks
Merger_Finish ==
    /\ pc = "merge_loop"
    /\ i >= Len(lines)
    /\ merged_blocks' = Append(merged_blocks, current_block)
    /\ returned' = MapSeq(Append(merged_blocks, current_block), LAMBDA m : FinalBlock(1, m))
    /\ pc' = "merge_done"
    /\ UNCHANGED <<entry, doc, lines, i, current_block, blocks, page_count, weighted, calls>>

NextMerge == Merger_SkipEmptyPage \/ Merger_Start \/ Merger_Iterate \/ Merger_Finish
SpecMerge == InitMerge /\ [][NextMerge]_vars

\* t is optional whitespace, then one character of markers or digits and a
\* full stop, then whitespace, then anything.
HasListPrefix(t, markers) ==
    \E s \in 1..Len(t) : \E e \in s..(Len(t) - 1) :
        /\ \A k \in 1..(s - 1) : IsSpace(t[k])
        /\ IsSpace(t[e + 1])
        /\ \/ e = s /\ t[s] \in markers
           \/ e > s /\ t[e] = Ord(".") /\ \A k \in s..(e - 1) : IsDigit(t[k])
\* The bullet characters of the specification: the bullet (U+2022) and the
\* hyphen.
BulletChars == {8226, Ord("-")}
\* The characters the pattern of the source accepts in their place: U+00E2,
\* U+20AC, U+00A2 and the hyphen.
SourceMarkerChars == {226, 8364, 162, Ord("-")}

\* C2 (as claimed): in the loop, a line whose text starts with a list-item
\* prefix (optional whitespace, a bullet character or a number and a full
\* stop, then whitespace) never merges: the iteration closes the open block
\* and starts a new block from the line, whatever the styles and the gap.
C2_ListItemNeverMerges ==
    [][(pc = "merge_loop" /\ i < Len(lines) /\ HasListPrefix(lines[i + 1].text, BulletChars))
          => /\ merged_blocks' = Append(merged_blocks, current_block)
             /\ current_block' = NewBlock(lines[i + 1])]_vars

\* C2, the part the code keeps: a line starting with a hyphen or number
\* prefix, or one of the characters the source's class spells, never merges.
C2_SourcePatternNeverMerges ==
    [][(pc = "merge_loop" /\ i < Len(lines) /\ HasListPrefix(lines[i + 1].text, SourceMarkerChars))
          => /\ merged_blocks' = Append(merged_blocks, current_block)
             /\ current_block' = NewBlock(lines[i + 1])]_vars

IsSuffix(u, t) == Len(u) <= Len(t) /\ SubSeq(t, Len(t) - Len(u) + 1, Len(t)) = u
\* Lines k-1 and k have the same style and line k starts where line k-1 ends.
SameStyleGapZero(k) ==
    /\ lines[k].style = lines[k - 1].style
    /\ lines[k].bbox[2] = lines[k - 1].bbox[4]
\* After the iteration on line k, the open block ends with the two texts
\* joined by one space; a page of these two lines yields that one block.
MergedAsOne(k) ==
    /\ (pc = "merge_loop" /\ i = k)
          => IsSuffix(lines[k - 1].text \o Text(<<" ">>) \o lines[k].text, current_block.text)
    /\ (pc = "merge_done" /\ Len(lines) = 2)
          => /\ Len(returned) = 1
             /\ returned[1].text = lines[1].text \o Text(<<" ">>) \o lines[2].text

\* C3 (as amended): two consecutive lines of a page with identical style
\* tuples and vertical gap 0, the second of which does not start with a
\* list-item prefix the merger's pattern accepts, merge (threshold 4.0): the
\* open block's text continues line1.text + " " + line2.text, and a page of
\* just these two lines yields exactly one block with that text.
C3_GapZeroSameStyleMergesUnlessListItem ==
    \A k \in 2..Len(lines) :
        (SameStyleGapZero(k) /\ ~HasListPrefix(lines[k].text, SourceMarkerChars)) => MergedAsOne(k)

\* C3 (as claimed): the same for every second line.
C3_GapZeroSameStyleMerges ==
    \A k \in 2..Len(lines) : SameStyleGapZero(k) => MergedAsOne(k)

\* C3 witness: a page of two lines of one style with gap 0 has been merged
\* into one block.
C3_Witness ==
    /\ pc = "merge_done"
    /\ Len(lines) = 2
    /\ SameStyleGapZero(2)
    /\ Len(returned) = 1
    /\ Len(returned[1].text) = Len(lines[1].text) + 1 + Len(lines[2].text)

-----------------------------------------------------------------------------
(* The runs: ingest.py's __main__ block (entry "ingest_main") and          *)
(* main.process_single_pdf (entry "process_single_pdf").  blocks holds the *)
(* collection each stage hands to the next (extracted_blocks,              *)
(* non_header_footer_blocks, short_blocks, font_filtered_blocks,           *)
(* final_blocks; raw_blocks in process_single_pdf).  What follows the      *)
(* Feature Engineer (printing and saving, or tagging and the classifier)   *)
(* reads the featured blocks and is outside the core.                      *)

\* The call returns the blocks of the opened document and its page count.
Extract ==
    /\ pc = "extract"
    /\ blocks' = extract_logical_text_blocks(doc).blocks
    /\ page_count' = extract_logical_text_blocks(doc).page_count
    /\ pc' = IF entry = "ingest_main" THEN "header_footer" ELSE "psp_check"
    /\ calls' = Append(calls, "extract_logical_text_blocks")
    /\ UNCHANGED <<entry, doc, lines, i, current_block, merged_blocks, weighted, returned>>

\* pymupdf.open raises: the call returns [], 0.
Extract_OpenError ==
    /\ pc = "extract"
    /\ blocks' = <<>>
    /\ page_count' = 0
    /\ pc' = IF entry = "ingest_main" THEN "header_footer" ELSE "psp_check"
    /\ calls' = Append(calls, "extract_logical_text_blocks")
    /\ UNCHANGED <<entry, doc, lines, i, current_block, merged_blocks, weighted, returned>>

Main_HeaderFooter ==
    /\ pc = "header_footer"
    /\ blocks' = filter_header_footer_blocks(blocks, page_count)
    /\ pc' = "weighted_mean"
    /\ calls' = Append(calls, "filter_header_footer_blocks")
    /\ UNCHANGED <<entry, doc, lines, i, current_block, merged_blocks, page_count,
                   weighted, returned>>

Main_WeightedMean ==
    /\ pc = "weighted_mean"
    /\ weighted' = calculate_weighted_mean_font_size(blocks)
    /\ pc' = "long_blocks"
    /\ calls' = Append(calls, "calculate_weighted_mean_font_size")
    /\ UNCHANGED <<entry, doc, lines, i, current_block, merged_blocks, blocks,
                   page_count, returned>>

Main_LongBlocks ==
    /\ pc = "long_blocks"
    /\ blocks' = filter_long_blocks(blocks, weighted, max_words)
    /\ pc' = "small_fonts"
    /\ calls' = Append(calls, "filter_long_blocks")
    /\ UNCHANGED <<entry, doc, lines, i, current_block, merged_blocks, page_count,
                   weighted, returned>>

Main_SmallFonts ==
    /\ pc = "small_fonts"
    /\ blocks' = filter_small_fonts_by_weighted_mean(blocks, weighted)
    /\ pc' = "post_process"
    /\ calls' = Append(calls, "filter_small_fonts_by_weighted_mean")
    /\ UNCHANGED <<entry, doc, lines, i, current_block, merged_blocks, page_count,
                   weighted, returned>>

Main_PostProcess ==
    /\ pc = "post_process"
    /\ blocks' = post_process_blocks(blocks)
    /\ pc' = "features"
    /\ calls' = Append(calls, "post_process_blocks")
    /\ UNCHANGED <<entry, doc, lines, i, current_block, merged_blocks, page_count,
                   weighted, returned>>

Main_Features ==
    /\ pc = "features"
    /\ returned' = engineer_layout_features(blocks)
    /\ blocks' = engineer_layout_features_argument(blocks)
    /\ pc' = "featured"
    /\ calls' = Append(calls, "engineer_layout_features")
    /\ UNCHANGED <<entry, doc, lines, i, current_block, merged_blocks, page_count, weighted>>

\* if not raw_blocks: return None
PSP_NoBlocks ==
    /\ pc = "psp_check"
    /\ blocks = <<>>
    /\ pc' = "psp_none"
    /\ UNCHANGED <<entry, doc, lines, i, current_block, merged_blocks, blocks,
                   page_count, weighted, returned, calls>>

\* featured_blocks = engineer_layout_features(raw_blocks)
PSP_Features ==
    /\ pc = "psp_check"
    /\ blocks # <<>>
    /\ returned' = engineer_layout_features(blocks)
    /\ blocks' = engineer_layout_features_argument(blocks)
    /\ pc' = "featured"
    /\ calls' = Append(calls, "engineer_layout_features")
    /\ UNCHANGED <<entry, doc, lines, i, current_block, merged_blocks, page_count, weighted>>

NextMain ==
    \/ Main_HeaderFooter
    \/ Main_WeightedMean
    \/ Main_LongBlocks
    \/ Main_SmallFonts
    \/ Main_PostProcess
    \/ Main_Features

Next == Extract \/ Extract_OpenError \/ NextMain \/ PSP_NoBlocks \/ PSP_Features

HeadingStyle == <<18, "helv-bold", TRUE, 0>>
BodyStyle == <<11, "helv", FALSE, 0>>
DocLineChoices ==
    {[text |-> Text(<<"T">>), style |-> HeadingStyle, gap |-> 0],
     [text |-> Text(<<"x">>), style |-> BodyStyle, gap |-> 0],
     [text |-> MakeText(21, 1), style |-> BodyStyle, gap |-> 0]}
DocPages == {BuildLines(cs) : cs \in SeqsUpTo(DocLineChoices, MaxPageLines)}
Docs == UNION {[1..n -> DocPages] : n \in 1..MaxDocPages}

Init ==
    /\ pc = "extract"
    /\ entry \in {"ingest_main", "process_single_pdf"}
    /\ doc \in Docs
    /\ lines = <<>>
    /\ i = 0
    /\ current_block = NoBlock
    /\ merged_blocks = <<>>
    /\ blocks = <<>>
    /\ page_count = 0
    /\ weighted = NotComputed
    /\ returned = <<>>
    /\ calls = <<>>

Spec == Init /\ [][Next]_vars

PipelineOrder ==
    <<"extract_logical_text_blocks", "filter_header_footer_blocks",
      "calculate_weighted_mean_font_size", "filter_long_blocks",
      "filter_small_fonts_by_weighted_mean", "post_process_blocks",
      "engineer_layout_features">>
\* The weighted mean of a collection, as a fraction.
IsMeanOf(w, bs) ==
    IF TotalChars(bs) = 0 THEN w.num = 0 /\ w.den > 0
    ELSE /\ w.den > 0
         /\ w.num * TotalChars(bs)
               = w.den * SumSeq([k \in 1..Len(bs) |-> bs[k].font_size * Len(bs[k].text)])

\* C9 (as claimed): in every run, of either entry point, the blocks reach the
\* Feature Engineer only after extraction, header/footer filter, weighted
\* mean, long-block filter, small-font filter and cleanup, in this order and
\* each once; the mean is the mean of the collection left by the
\* header/footer filter.
C9_AllStagesBeforeFeatures ==
    /\ pc = "featured" => calls = PipelineOrder
    /\ pc = "long_blocks" => IsMeanOf(weighted, blocks)

\* C9, the part the code keeps: the run of ingest.py's __main__ block.
C9_IngestMainOrder ==
    /\ (pc = "featured" /\ entry = "ingest_main") => calls = PipelineOrder
    /\ pc = "long_blocks" => IsMeanOf(weighted, blocks)

-----------------------------------------------------------------------------
(* The end-to-end scenario: a one-page document of five lines and a line   *)
(* in the bottom margin, all of one colour, run by ingest.py's __main__    *)
(* block.  The document at sample_pdf_path is either one that is already   *)
(* there (ScenarioPage: the word counts and styles of the scenario, the    *)
(* lengths of the words, which it leaves open, drawn) or the page the      *)
(* block writes itself when the file is missing (DummyPage).               *)

ScenarioLine(nwords, wlen, style, top) ==
    [text |-> MakeText(nwords, wlen),
     bbox |-> <<50, top, 50 + 6 * (nwords * wlen + nwords - 1), top + style[1]>>,
     style |-> style]
ScenarioPage(a, b, f) ==
    <<ScenarioLine(25, a, <<18, "helv-bold", TRUE, 0>>, 58),
      ScenarioLine(4, 5, <<14, "helv-bold", TRUE, 0>>, 90),
      ScenarioLine(22, b, <<11, "helv", FALSE, 0>>, 122),
      ScenarioLine(3, 5, <<11, "helv-bold", TRUE, 0>>, 152),
      ScenarioLine(12, b, <<11, "helv", FALSE, 0>>, 182),
      ScenarioLine(2, f, <<9, "helv", FALSE, 0>>, 743)>>

ScenarioDocs ==
    {<<ScenarioPage(a, b, f)>> : a \in {1, 5}, b \in {1, 5, 9}, f \in {1, 40, 120}}

\* The texts of the six insert_text calls.
DummyTitle ==
    Text(<<"T", "h", "i", "s", " ", "i", "s", " ", "a", " ", "M", "a", "i", "n",
      " ", "T", "i", "t", "l", "e", " ", "W", "i", "t", "h", " ", "M", "o",
      "r", "e", " ", "T", "h", "a", "n", " ", "T", "w", "e", "n", "t", "y",
      " ", "W", "o", "r", "d", "s", " ", "T", "o", " ", "T", "e", "s", "t",
      " ", "T", "h", "e", " ", "N", "e", "w", " ", "L", "o", "g", "i", "c">>)
DummySubtitle ==
    Text(<<"T", "h", "i", "s", " ", "i", "s", " ", "a", " ", "s", "h", "o", "r",
      "t", " ", "s", "u", "b", "t", "i", "t", "l", "e">>)
DummyLongBlock ==
    Text(<<"T", "h", "i", "s", " ", "i", "s", " ", "a", " ", "v", "e", "r", "y",
      " ", "l", "o", "n", "g", " ", "b", "l", "o", "c", "k", " ", "o", "f",
      " ", "t", "e", "x", "t", " ", "t", "h", "a", "t", " ", "s", "h", "o",
      "u", "l", "d", " ", "d", "e", "f", "i", "n", "i", "t", "e", "l", "y",
      " ", "b", "e", " ", "r", "e", "m", "o", "v", "e", "d", " ", "b", "e",
      "c", "a", "u", "s", "e", " ", "i", "t", " ", "h", "a", "s", " ", "w",
      "a", "y", " ", "m", "o", "r", "e", " ", "t", "h", "a", "n", " ", "t",
      "w", "e", "n", "t", "y", " ", "w", "o", "r", "d", "s", " ", "i", "n",
      " ", "i", "t", ",", " ", "w", "h", "i", "c", "h", " ", "i", "s", " ",
      "t", "h", "e", " ", "c", "u", "t", "o", "f", "f", ".">>)
DummyHeading ==
    Text(<<"A", "n", "o", "t", "h", "e", "r", " ", "s", "h", "o", "r", "t", " ",
      "h", "e", "a", "d", "i", "n", "g">>)
DummyParagraph ==
    Text(<<"T", "h", "i", "s", " ", "i", "s", " ", "a", " ", "p", "a", "r", "a",
      "g", "r", "a", "p", "h", " ", "t", "h", "a", "t", " ", "w", "i", "l",
      "l", " ", "b", "e", " ", "d", "e", "l", "e", "t", "e", "d", ",", " ",
      "c", "o", "n", "f", "i", "r", "m", "i", "n", "g", " ", "t", "h", "e",
      " ", "b", "l", "o", "c", "k", " ", "a", "b", "o", "v", "e", " ", "i",
      "s", " ", "a", " ", "h", "e", "a", "d", "i", "n", "g", ".">>)
DummyFooter ==
    Text(<<"C", "o", "n", "f", "i", "d", "e", "n", "t", "i", "a", "l", " ", "F",
      "o", "o", "t", "e", "r">>)

\* insert_text is given the left end of the baseline; the box of the line is
\* the library's: it reaches ascent/100 of the font size above the baseline
\* and descent/100 below it, and 6 units to the right for each character.
DummyLine(baseline, text, style, ascent, descent) ==
    [text |-> text,
     bbox |-> <<50, baseline - (style[1] * ascent) \div 100,
                50 + 6 * Len(text), baseline + (style[1] * descent) \div 100>>,
     style |-> style]
DummyPage(ascent, descent) ==
    <<DummyLine(72, DummyTitle, <<18, "helv-bold", TRUE, 0>>, ascent, descent),
      DummyLine(100, DummySubtitle, <<14, "helv-bold", TRUE, 0>>, ascent, descent),
      DummyLine(130, DummyLongBlock, <<11, "helv", FALSE, 0>>, ascent, descent),
      DummyLine(160, DummyHeading, <<11, "helv-bold", TRUE, 0>>, ascent, descent),
      DummyLine(190, DummyParagraph, <<11, "helv", FALSE, 0>>, ascent, descent),
      DummyLine(750, DummyFooter, <<9, "helv", FALSE, 0>>, ascent, descent)>>
DummyDocs == {<<DummyPage(ascent, descent)>> : ascent \in {80, 108}, descent \in {20, 30}}

InitScenario ==
    /\ pc = "extract"
    /\ entry = "ingest_main"
    /\ doc \in ScenarioDocs \cup DummyDocs
    /\ lines = <<>>
    /\ i = 0
    /\ current_block = NoBlock
    /\ merged_blocks = <<>>
    /\ blocks = <<>>
    /\ page_count = 0
    /\ weighted = NotComputed
    /\ returned = <<>>
    /\ calls = <<>>

NextScenario == Extract \/ NextMain
SpecScenario == InitScenario /\ [][NextScenario]_vars

\* The collection holds the line of this size, boldness and number of words.
Retains(fs, bold, nwords) ==
    \E k \in 1..Len(blocks) :
        /\ blocks[k].font_size = fs
        /\ blocks[k].is_bold = bold
        /\ Cardinality({j \in 1..Len(blocks[k].text) : blocks[k].text[j] = Ord(" ")}) + 1 = nwords
\* Characters of the page's lines, and their sizes weighted by characters.
PageChars == SumSeq([k \in 1..Len(doc[1]) |-> Len(doc[1][k].text)])
PageWeightedSizes == SumSeq([k \in 1..Len(doc[1]) |-> doc[1][k].style[1] * Len(doc[1][k].text)])

\* C8 (as amended): after header/footer filter, weighted mean, long-block
\* filter, small-font filter and cleanup with the default parameters, the
\* 14pt line and the 11pt bold line are retained and the 22-word 11pt
\* paragraph is dropped; the 18pt line is retained exactly when 18 exceeds
\* 1.5 times the weighted mean of the six lines, and the 12-word 11pt
\* paragraph is dropped exactly when that mean is at least 11.  On the page
\* the __main__ block writes itself (15, 5, 27, 3, 15 and 2 words) the 18pt
\* line is not long, and the 18pt, 14pt and 11pt bold lines are what is left.
C8_ScenarioOutcomeByMean ==
    /\ (pc = "features" /\ doc \in ScenarioDocs) =>
          /\ Retains(14, TRUE, 4)
          /\ Retains(11, TRUE, 3)
          /\ ~Retains(11, FALSE, 22)
          /\ Retains(18, TRUE, 25) <=> (2 * 18 * PageChars > 3 * PageWeightedSizes)
          /\ ~Retains(11, FALSE, 12) <=> (11 * PageChars <= PageWeightedSizes)
    /\ (pc = "features" /\ doc \in DummyDocs) =>
          /\ Len(blocks) = 3
          /\ Retains(18, TRUE, 15)
          /\ Retains(14, TRUE, 5)
          /\ Retains(11, TRUE, 3)

\* C8 (as claimed): the 18pt, 14pt and 11pt bold lines are retained and both
\* 11pt paragraphs are dropped, whatever the lengths of the words.
C8_ScenarioOutcome ==
    (pc = "features" /\ doc \in ScenarioDocs) =>
        /\ Retains(18, TRUE, 25)
        /\ Retains(14, TRUE, 4)
        /\ Retains(11, TRUE, 3)
        /\ ~Retains(11, FALSE, 22)
        /\ ~Retains(11, FALSE, 12)

\* C8 witness: a run of the scenario in which the 18pt line passes the
\* long-block filter by its size and both paragraphs are dropped.
C8_Witness ==
    /\ pc = "features"
    /\ doc \in ScenarioDocs
    /\ calls = SubSeq(PipelineOrder, 1, 6)
    /\ Retains(18, TRUE, 25)
    /\ Retains(14, TRUE, 4)
    /\ Retains(11, TRUE, 3)
    /\ Len(blocks) = 3

-----------------------------------------------------------------------------
(* The Block Merger as the specification states it: a line is compared     *)
(* with the style of the open block, which is the style of its first line. *)

\* The first line of the block that holds line k when each line is compared
\* with the style of the open block's first line.
RECURSIVE BlockStartByBlockStyle(_, _)
BlockStartByBlockStyle(ls, k) ==
    IF k = 1 THEN 1
    ELSE LET s == BlockStartByBlockStyle(ls, k - 1)
         IN  IF /\ ls[k].style = ls[s].style
                /\ ls[k].bbox[2] - ls[k - 1].bbox[4] < 4
                /\ ~HasListPrefix(ls[k].text, SourceMarkerChars)
             THEN s ELSE k
\* The texts of lines s to k joined by single spaces.
RECURSIVE JoinedTexts(_, _, _)
JoinedTexts(ls, s, k) ==
    IF k = s THEN ls[s].text ELSE JoinedTexts(ls, s, k - 1) \o Text(<<" ">>) \o ls[k].text
\* The blocks of the page by that rule: text and style of each, in order.
BlocksByBlockStyle(ls) ==
    LET idx == [k \in 1..Len(ls) |-> k]
        starts == SelectSeq(idx, LAMBDA k : BlockStartByBlockStyle(ls, k) = k)
        last(s) == SetMax({k \in 1..Len(ls) : BlockStartByBlockStyle(ls, k) = s})
    IN  [j \in 1..Len(starts) |->
            [text |-> JoinedTexts(ls, starts[j], last(starts[j])),
             style |-> ls[starts[j]].style]]
\* Text and style of the records the extraction returns for the page.
TextAndStyle(r) ==
    [text |-> r.text, style |-> <<r.font_size, r.font_name, r.is_bold, r.color>>]

\* C11: after any number of lines of a page, the open block's style (the
\* style of its first line) equals the style of the line just processed, so
\* every line merged into the block has the block's style and was less than
\* the proximity threshold below the line before it; comparing each line
\* with the previous line's style, as the code does, yields the same blocks
\* as comparing it with the open block's style.
C11_PrevLineStyleIsBlockStyle ==
    /\ pc = "merge_loop" =>
          /\ current_block.style = lines[i].style
          /\ current_block.style = lines[BlockStartByBlockStyle(lines, i)].style
          /\ \A k \in (BlockStartByBlockStyle(lines, i) + 1)..i :
                /\ lines[k].style = current_block.style
                /\ lines[k].bbox[2] - lines[k - 1].bbox[4] < 4
          /\ current_block.text
                = JoinedTexts(lines, BlockStartByBlockStyle(lines, i), i)
    /\ (pc = "merge_done" /\ lines # <<>>) =>
          [k \in 1..Len(returned) |-> TextAndStyle(returned[k])] = BlocksByBlockStyle(lines)

\* C11 witness: a page of three lines has been merged into one block, the
\* third line having been compared with the second.
C11_Witness ==
    /\ pc = "merge_done"
    /\ Len(lines) = 3
    /\ Len(returned) = 1
    /\ returned[1].text = JoinedTexts(lines, 1, 3)

====
